---- MODULE Spec2Model ----
(***************************************************************************)
(* Model of eth/masternode_manager.go (go-etherzero): the masternode       *)
(* registry as seen by the manager, the ranking used by the instant-send   *)
(* quorum gate, the payment-winner selection, the active-node state and    *)
(* the membership event loop.                                              *)
(*                                                                         *)
(* The package masternode (MasternodeSet, Masternode.CalculateScore,       *)
(* ActiveMasternode) is not part of the file; its operations are modelled  *)
(* from the design document and are marked so where they are defined.      *)
(* Go panics (nil map write, nil pointer dereference) are modelled as the  *)
(* outcome "panic" of the call.  Go's unspecified map and set iteration    *)
(* order is a nondeterministic choice of a permutation.                    *)
(*                                                                         *)
(* Not modelled: mm.syncer() (called by GetMasternodeRank, defined         *)
(* elsewhere) is taken to return without touching the state below, and     *)
(* Init is the state after a Start whose NewMasternodeSet succeeded.       *)
(***************************************************************************)
EXTENDS Integers, Sequences, FiniteSets, TLC

\* ---------------------------------------------------------------- bounds
NumIds == 3
MaxHeight == 2
NumHashes == 2

\* ------------------------------------------------------------- constants
SIGNATURES_TOTAL == 10

Ids == 1..NumIds
Heights == 1..MaxHeight
Hashes == 1..NumHashes
IPs == {"10.0.0.1", "10.0.0.2"}
Ports == {30303, 30304}

\* mn.active.ID / mn.srvr.Self().ID: the local identity
Self == 1
\* mn.active.Addr: the locally bound endpoint
LocalIP == "10.0.0.1"
LocalPort == 30303

\* blockchain.CurrentBlock() == nil
NoBlock == 0
\* a nil *masternode.Masternode
NilNode == 0

ACTIVE_MASTERNODE_NOT_CAPABLE == "NOT_CAPABLE"
ACTIVE_MASTERNODE_STARTED == "STARTED"

\* The fields of a masternode.Masternode the manager reads: n.Node.IP,
\* n.Node.TCP, node.Height.  A *Masternode is named by its ID.
NodeAttrs == [IP : IPs, TCP : Ports, Height : Heights]

\* The attributes the contract can hold for id.  The manager compares the
\* endpoint of the local identity's record only; the record of a remote
\* node carries the remote endpoint.
AttrsOf(id) ==
    IF id = Self THEN NodeAttrs
    ELSE {a \in NodeAttrs : a.IP # LocalIP /\ a.TCP # LocalPort}

VARIABLES
    masternodes,   \* mm.masternodes: ID -> attributes of the registered nodes
    activeState,   \* mm.active.State()
    pc,            \* position of the goroutine masternodeLoop
    last,          \* what the last step of masternodeLoop did
    block,         \* hash of mm.blockchain.CurrentBlock(), or NoBlock
    ranks,         \* ID -> what the last GetMasternodeRank(ID) returned
    voteRet,       \* what the last ProcessTxLockVotes did
    payRet,        \* what the last GetNextMasternodeInQueueForPayment returned
    joinSub,       \* joinSub: "none", "subscribed" or "unsubscribed"
    quitSub,       \* quitSub: "none", "subscribed" or "unsubscribed"
    stopCalled,    \* whether Stop() has been called
    protocolVersion, \* ID -> the ProtocolVersion of the node's record
    payCall        \* a GetNextMasternodeInQueueForPayment call in progress

vars == <<masternodes, activeState, pc, last, block, ranks, voteRet, payRet,
          joinSub, quitSub, stopCalled, protocolVersion, payCall>>
loopVars == <<masternodes, activeState, pc, last, joinSub, quitSub, stopCalled>>
readVars == <<block, ranks, voteRet, payRet, protocolVersion, payCall>>

\* ------------------------------------------------------- package masternode

\* All the orders in which the elements of a set can be enumerated.
Perms(S) ==
    {f \in [1..Cardinality(S) -> S] : \A i, j \in 1..Cardinality(S) : i # j => f[i] # f[j]}

\* MasternodeSet.Len()
SetLen(reg) == Cardinality(DOMAIN reg)

\* MasternodeSet.Nodes(): the records, in an unspecified order.
Nodes(reg) == Perms(DOMAIN reg)

\* MasternodeSet.Node(id): the record, or nil.
Node(reg, id) == IF id \in DOMAIN reg THEN id ELSE NilNode

\* MasternodeSet.NodeJoin(id) on success: insert or replace the record.
NodeJoin(reg, id, attrs) ==
    [i \in (DOMAIN reg) \cup {id} |-> IF i = id THEN attrs ELSE reg[i]]

\* MasternodeSet.NodeQuit(id): remove the record if present.
NodeQuit(reg, id) == [i \in (DOMAIN reg) \ {id} |-> reg[i]]

\* Masternode.CalculateScore(hash): a fixed mixing function of (ID, hash)
\* standing for the cryptographic hash; some pairs collide.
CalculateScore(id, hash) == (5 * id + 3 * hash + id * hash) % 7

\* ------------------------------------------------- GetMasternodeScores / Rank

\* The map[*big.Int]*Masternode built by GetMasternodeScores.  A key is a
\* pointer: the big.Int allocated by the i-th CalculateScore call, holding
\* the score.  minProtocol is not read.
GetMasternodeScores(nodes, blockHash, minProtocol) ==
    LET keys == {[addr |-> i, val |-> CalculateScore(nodes[i], blockHash)] : i \in 1..Len(nodes)}
    IN  [k \in keys |-> nodes[k.addr]]

\* The loop of GetMasternodeRank over the map, iterated in the order iter.
RECURSIVE RankLoop(_, _, _, _)
RankLoop(masternodeScores, iter, id, tRank) ==
    IF iter = <<>> THEN 0
    ELSE IF masternodeScores[Head(iter)] = id THEN tRank + 1
    ELSE RankLoop(masternodeScores, Tail(iter), id, tRank + 1)

RankPanic == [status |-> "panic", rank |-> 0, ok |-> FALSE]
RankNone == [status |-> "none", rank |-> 0, ok |-> FALSE]

\* What GetMasternodeRank returns after the loop.
RankReturn(rank) == [status |-> "ok", rank |-> rank, ok |-> TRUE]

\* Every outcome GetMasternodeRank(id) can have on registry reg at block blk.
GetMasternodeRankReturns(reg, blk, id) ==
    IF blk = NoBlock
    THEN {RankPanic}
    ELSE UNION { LET masternodeScores == GetMasternodeScores(nodes, blk, 1)
                 IN  {RankReturn(RankLoop(masternodeScores, iter, id, 0)) :
                        iter \in Perms(DOMAIN masternodeScores)}
               : nodes \in Nodes(reg) }

GetMasternodeRank(id) ==
    /\ \E r \in GetMasternodeRankReturns(masternodes, block, id) :
          ranks' = [ranks EXCEPT ![id] = r]
    /\ UNCHANGED <<loopVars, block, voteRet, payRet, protocolVersion, payCall>>

\* ----------------------------------------------------- ProcessTxLockVotes

\* The decision of ProcessTxLockVotes on what GetMasternodeRank(mm.active.ID)
\* returned: forwarded tells whether mm.is.ProcessTxLockVotes(votes) is called.
LockVoteDecision(r) ==
    IF r.status = "panic" THEN [status |-> "panic", forwarded |-> FALSE, rank |-> 0]
    ELSE IF ~r.ok THEN [status |-> "ok", forwarded |-> FALSE, rank |-> r.rank]
    ELSE IF r.rank > SIGNATURES_TOTAL THEN [status |-> "ok", forwarded |-> FALSE, rank |-> r.rank]
    ELSE [status |-> "ok", forwarded |-> TRUE, rank |-> r.rank]

VoteNone == [status |-> "none", forwarded |-> FALSE, rank |-> 0]

ProcessTxLockVotes ==
    /\ \E r \in GetMasternodeRankReturns(masternodes, block, Self) :
          voteRet' = LockVoteDecision(r)
    /\ UNCHANGED <<loopVars, block, ranks, payRet, protocolVersion, payCall>>

\* ----------------------------------- GetNextMasternodeInQueueForPayment

PayPanic == [status |-> "panic", winner |-> NilNode, err |-> "nil"]
PayNone == [status |-> "none", winner |-> NilNode, err |-> "nil"]

\* var sortMap map[int]*masternode.Masternode is declared and never made.
sortMapIsNil == TRUE

\* The first loop: one append to paids and one store into sortMap per node.
\* A store into a nil map panics.
PaymentFirstLoop(reg, nodes) ==
    IF Len(nodes) > 0 /\ sortMapIsNil
    THEN [panic |-> TRUE, paids |-> <<>>]
    ELSE [panic |-> FALSE, paids |-> [i \in 1..Len(nodes) |-> reg[nodes[i]].Height]]

\* The second loop over the sorted heights.  highest is a nil *big.Int when
\* the first score is compared with it, and score.Cmp(nil) dereferences it.
PaymentSecondLoop(paids, tenthNetWork) ==
    IF Len(paids) = 0
    THEN [status |-> "ok", winner |-> NilNode, err |-> "nil"]
    ELSE PayPanic

\* Every step of GetNextMasternodeInQueueForPayment(block), the registry
\* being enumerated in the order nodes.
PaymentReturn(reg, nodes, blockHash) ==
    LET tenthNetWork == SetLen(reg) \div 10
        first == PaymentFirstLoop(reg, nodes)
    IN  IF first.panic THEN PayPanic
        ELSE PaymentSecondLoop(first.paids, tenthNetWork)

GetNextMasternodeInQueueForPayment ==
    /\ block # NoBlock
    /\ \E nodes \in Nodes(masternodes) :
          payRet' = PaymentReturn(masternodes, nodes, block)
    /\ UNCHANGED <<loopVars, block, ranks, voteRet, protocolVersion, payCall>>

\* ------------------------------------------------ updateActiveMasternode

\* A faulty updateActiveMasternode that leaves out the comparison of the IP.
updateActiveMasternodeNoIP(reg) ==
    LET n == Node(reg, Self)
    IN  IF n = NilNode THEN ACTIVE_MASTERNODE_NOT_CAPABLE
        ELSE IF reg[n].TCP # LocalPort THEN ACTIVE_MASTERNODE_NOT_CAPABLE
        ELSE ACTIVE_MASTERNODE_STARTED

updateActiveMasternode(reg) ==
    LET n == Node(reg, Self)
    IN  IF n = NilNode THEN ACTIVE_MASTERNODE_NOT_CAPABLE
        ELSE IF reg[n].TCP # LocalPort THEN ACTIVE_MASTERNODE_NOT_CAPABLE
        ELSE IF reg[n].IP # LocalIP THEN ACTIVE_MASTERNODE_NOT_CAPABLE
        ELSE ACTIVE_MASTERNODE_STARTED

\* ------------------------------------------------------- masternodeLoop

\* What a step of the loop did: the event and its identity, whether NodeJoin
\* failed, whether updateActiveMasternode and AddPeer were called, whether
\* the identity was registered before the step (had), and for a Quit
\* whether the step before was the successful Join of the same identity
\* ("joinNew": not registered before that Join, "joinOld": registered).
Step(ev, id, err, updated, addPeer, had, after) ==
    [ev |-> ev, id |-> id, err |-> err, updated |-> updated, addPeer |-> addPeer,
     had |-> had, after |-> after]

\* The Join of id, if it is what the last step handled with success.
AfterJoin(id) ==
    IF last.ev = "join" /\ ~last.err /\ last.id = id
    THEN (IF last.had THEN "joinOld" ELSE "joinNew")
    ELSE "none"

\* Lines 306-335: the first evaluation, then the two subscriptions; the
\* goroutine returns if WatchJoin or WatchQuit fails.
LoopStart ==
    /\ pc = "start"
    /\ activeState' = updateActiveMasternode(masternodes)
    /\ last' = Step("start", Self, FALSE, TRUE, FALSE, FALSE, "none")
    /\ \E err1, err2 \in BOOLEAN :
          /\ pc' = IF err1 \/ err2 THEN "returned" ELSE "select"
          /\ joinSub' = IF err1 THEN "none" ELSE "subscribed"
          /\ quitSub' = IF err1 \/ err2 THEN "none" ELSE "subscribed"
    /\ UNCHANGED <<masternodes, stopCalled, readVars>>

\* A faulty Join case that does not test err: the follow-up runs although
\* NodeJoin failed.
HandleJoinErrUnchecked(id) ==
    /\ pc = "select"
    /\ joinSub = "subscribed"
    /\ last' = Step("join", id, TRUE, id = Self, id # Self, id \in DOMAIN masternodes, "none")
    /\ activeState' = IF id = Self THEN updateActiveMasternode(masternodes) ELSE activeState
    /\ UNCHANGED <<masternodes, pc, joinSub, quitSub, stopCalled, readVars>>

\* case join := <-joinCh, NodeJoin failing: nothing else is done.
HandleJoinErr(id) ==
    /\ pc = "select"
    /\ joinSub = "subscribed"
    /\ last' = Step("join", id, TRUE, FALSE, FALSE, id \in DOMAIN masternodes, "none")
    /\ UNCHANGED <<masternodes, activeState, pc, joinSub, quitSub, stopCalled, readVars>>

\* A faulty Join case without the else: AddPeer is called for the local
\* identity too.
HandleJoinAlwaysAddPeer(id, attrs) ==
    /\ pc = "select"
    /\ joinSub = "subscribed"
    /\ masternodes' = NodeJoin(masternodes, id, attrs)
    /\ activeState' = IF id = Self THEN updateActiveMasternode(masternodes') ELSE activeState
    /\ last' = Step("join", id, FALSE, id = Self, TRUE, id \in DOMAIN masternodes, "none")
    /\ UNCHANGED <<pc, joinSub, quitSub, stopCalled, readVars>>

\* case join := <-joinCh, NodeJoin succeeding; addPeer records the call of
\* mn.srvr.AddPeer(node.Node).  NodeJoin reads the attributes the
\* contract holds for id.
HandleJoin(id, attrs) ==
    /\ pc = "select"
    /\ joinSub = "subscribed"
    /\ masternodes' = NodeJoin(masternodes, id, attrs)
    /\ IF id = Self
       THEN /\ activeState' = updateActiveMasternode(masternodes')
            /\ last' = Step("join", id, FALSE, TRUE, FALSE, id \in DOMAIN masternodes, "none")
       ELSE /\ activeState' = activeState
            /\ last' = Step("join", id, FALSE, FALSE, TRUE, id \in DOMAIN masternodes, "none")
    /\ UNCHANGED <<pc, joinSub, quitSub, stopCalled, readVars>>

\* A faulty Quit case that leaves out the re-evaluation of the state.
HandleQuitNoUpdate(id) ==
    /\ pc = "select"
    /\ quitSub = "subscribed"
    /\ masternodes' = NodeQuit(masternodes, id)
    /\ activeState' = activeState
    /\ last' = Step("quit", id, FALSE, FALSE, FALSE, id \in DOMAIN masternodes, AfterJoin(id))
    /\ UNCHANGED <<pc, joinSub, quitSub, stopCalled, readVars>>

\* A faulty Quit case that removes the record of the local identity only.
HandleQuitOnlySelf(id) ==
    /\ pc = "select"
    /\ quitSub = "subscribed"
    /\ IF id = Self
       THEN /\ masternodes' = NodeQuit(masternodes, id)
            /\ activeState' = updateActiveMasternode(masternodes')
            /\ last' = Step("quit", id, FALSE, TRUE, FALSE, id \in DOMAIN masternodes, AfterJoin(id))
       ELSE /\ masternodes' = masternodes
            /\ activeState' = activeState
            /\ last' = Step("quit", id, FALSE, FALSE, FALSE, id \in DOMAIN masternodes, AfterJoin(id))
    /\ UNCHANGED <<pc, joinSub, quitSub, stopCalled, readVars>>

\* A faulty Quit case that re-evaluates on every Quit and looks up the
\* quitting identity instead of the local one: the record is gone, so the
\* state becomes NotCapable.
HandleQuitLooksUpEventId(id) ==
    /\ pc = "select"
    /\ quitSub = "subscribed"
    /\ masternodes' = NodeQuit(masternodes, id)
    /\ activeState' = ACTIVE_MASTERNODE_NOT_CAPABLE
    /\ last' = Step("quit", id, FALSE, id = Self, FALSE, id \in DOMAIN masternodes, AfterJoin(id))
    /\ UNCHANGED <<pc, joinSub, quitSub, stopCalled, readVars>>

\* case quit := <-quitCh
HandleQuit(id) ==
    /\ pc = "select"
    /\ quitSub = "subscribed"
    /\ masternodes' = NodeQuit(masternodes, id)
    /\ IF id = Self
       THEN /\ activeState' = updateActiveMasternode(masternodes')
            /\ last' = Step("quit", id, FALSE, TRUE, FALSE, id \in DOMAIN masternodes, AfterJoin(id))
       ELSE /\ activeState' = activeState
            /\ last' = Step("quit", id, FALSE, FALSE, FALSE, id \in DOMAIN masternodes, AfterJoin(id))
    /\ UNCHANGED <<pc, joinSub, quitSub, stopCalled, readVars>>

\* case err := <-joinSub.Err(), an error of the stream: the stream is
\* unsubscribed, the error printed, and the loop goes on.
JoinSubErr ==
    /\ pc = "select"
    /\ joinSub = "subscribed"
    /\ joinSub' = "unsubscribed"
    /\ last' = Step("joinErr", Self, FALSE, FALSE, FALSE, FALSE, "none")
    /\ UNCHANGED <<masternodes, activeState, pc, quitSub, stopCalled, readVars>>

\* case err := <-quitSub.Err(), an error of the stream.
QuitSubErr ==
    /\ pc = "select"
    /\ quitSub = "subscribed"
    /\ quitSub' = "unsubscribed"
    /\ last' = Step("quitErr", Self, FALSE, FALSE, FALSE, FALSE, "none")
    /\ UNCHANGED <<masternodes, activeState, pc, joinSub, stopCalled, readVars>>

\* The same two cases once the stream is unsubscribed: Unsubscribe closed
\* the Err() channel, the receive yields a nil error at once, and
\* err.Error() on it panics.
SubErrClosed ==
    /\ pc = "select"
    /\ joinSub = "unsubscribed" \/ quitSub = "unsubscribed"
    /\ pc' = "panic"
    /\ last' = Step("panic", Self, FALSE, FALSE, FALSE, FALSE, "none")
    /\ UNCHANGED <<masternodes, activeState, joinSub, quitSub, stopCalled, readVars>>

\* Stop(): the body is empty; stopCalled only records the call.
Stop ==
    /\ ~stopCalled
    /\ stopCalled' = TRUE
    /\ UNCHANGED <<masternodes, activeState, pc, last, joinSub, quitSub, readVars>>

\* ------------------------------------------------------- specifications

\* NewMasternodeSet(contract) loads the nodes the contract already holds.
Registries ==
    UNION {{f \in [S -> NodeAttrs] : \A i \in S : f[i] \in AttrsOf(i)} : S \in SUBSET Ids}

\* No GetNextMasternodeInQueueForPayment call is in progress.
PayIdle == [pc |-> "idle", len |-> 0, seen |-> 0]

\* The floor GetMasternodeRank passes to GetMasternodeScores.
MinProtocol == 1
ProtocolVersions == {MinProtocol - 1, MinProtocol}

InitState ==
    /\ masternodes \in Registries
    /\ activeState = ACTIVE_MASTERNODE_NOT_CAPABLE
    /\ pc = "start"
    /\ last = Step("none", Self, FALSE, FALSE, FALSE, FALSE, "none")
    /\ block \in Hashes \cup {NoBlock}
    /\ ranks = [i \in Ids |-> RankNone]
    /\ voteRet = VoteNone
    /\ payRet = PayNone
    /\ joinSub = "none"
    /\ quitSub = "none"
    /\ stopCalled = FALSE
    /\ payCall = PayIdle

\* The membership event loop.
Next ==
    \/ LoopStart
    \/ \E id \in Ids : HandleJoinErr(id)
    \/ \E id \in Ids : \E attrs \in AttrsOf(id) : HandleJoin(id, attrs)
    \/ \E id \in Ids : HandleQuit(id)

\* Every registered node runs a protocol version at the floor.
Init ==
    /\ InitState
    /\ protocolVersion = [i \in Ids |-> MinProtocol]

Spec == Init /\ [][Next]_vars

\* The event loop and Stop, the streams delivering events and no error.
\* The goroutine takes a step whenever a case of the select is ready.
NextStop ==
    \/ Next
    \/ Stop

SpecStop == Init /\ [][NextStop]_vars /\ WF_vars(NextStop)

\* The event loop with the stream errors and Stop.
NextStream ==
    \/ Next
    \/ JoinSubErr
    \/ QuitSubErr
    \/ SubErrClosed
    \/ Stop

SpecStream == Init /\ [][NextStream]_vars /\ WF_vars(NextStream)

\* GetNextMasternodeInQueueForPayment running beside the event loop, which
\* holds no lock of the manager: line 191 reads mm.masternodes.Len() ...
PayBegin ==
    /\ payCall.pc # "len"
    /\ block # NoBlock
    /\ payCall' = [pc |-> "len", len |-> SetLen(masternodes), seen |-> 0]
    /\ UNCHANGED <<loopVars, block, ranks, voteRet, payRet, protocolVersion>>

\* ... and line 200 reads mm.masternodes.Nodes(); the rest of the call
\* works on what the two calls returned.  seen is the number of records
\* Nodes() returned.
PayEnd ==
    /\ payCall.pc = "len"
    /\ \E nodes \in Nodes(masternodes) :
          LET first == PaymentFirstLoop(masternodes, nodes)
          IN  /\ payRet' = IF first.panic THEN PayPanic
                            ELSE PaymentSecondLoop(first.paids, payCall.len \div 10)
              /\ payCall' = [pc |-> "done", len |-> payCall.len, seen |-> Len(nodes)]
    /\ UNCHANGED <<loopVars, block, ranks, voteRet, protocolVersion>>

\* The event loop and a reader of the registry, interleaved.
NextConc ==
    \/ Next
    \/ PayBegin
    \/ PayEnd

SpecConc == Init /\ [][NextConc]_vars

\* The ranking on registries whose records run any protocol version.
InitProto ==
    /\ InitState
    /\ protocolVersion \in [Ids -> ProtocolVersions]

NextProto == \E id \in Ids : GetMasternodeRank(id)

SpecProto == InitProto /\ [][NextProto]_vars

\* The read operations, called on a registry that no event changes meanwhile.
NextRead ==
    \/ \E id \in Ids : GetMasternodeRank(id)
    \/ ProcessTxLockVotes
    \/ GetNextMasternodeInQueueForPayment

SpecRead == Init /\ [][NextRead]_vars

\* ================================================================ claims

\* The ranking and the selection as the design document states them.
Max(a, b) == IF a >= b THEN a ELSE b

\* Section 4.6: Started iff the local identity is registered with the
\* locally bound endpoint.
TransitionFunction(reg) ==
    IF Self \in DOMAIN reg /\ reg[Self].IP = LocalIP /\ reg[Self].TCP = LocalPort
    THEN ACTIVE_MASTERNODE_STARTED
    ELSE ACTIVE_MASTERNODE_NOT_CAPABLE

\* Section 4.4: the orders that sort the records ascending by JoinHeight.
SeniorOrders(reg) ==
    {o \in Perms(DOMAIN reg) :
        \A i, j \in 1..Len(o) : i < j => reg[o[i]].Height <= reg[o[j]].Height}

\* Section 4.4: the records of maximum Score among the first decileSize.
DecileWinners(reg, hash) ==
    LET decileSize == Max(1, Cardinality(DOMAIN reg) \div 10)
    IN  UNION { LET cands == {o[i] : i \in 1..decileSize}
                IN  {c \in cands : \A d \in cands :
                        CalculateScore(c, hash) >= CalculateScore(d, hash)}
              : o \in SeniorOrders(reg) }

\* C1: ProcessTxLockVotes forwards the lock votes if and only if the local
\* identity is a registry member and its rank is in 1..SIGNATURES_TOTAL; an
\* absent local identity is never authorized.
C1_QuorumGate ==
    voteRet.status # "none" =>
        (voteRet.forwarded <=>
            (Self \in DOMAIN masternodes /\ voteRet.rank \in 1..SIGNATURES_TOTAL))

\* C2: GetMasternodeRank reports found=false for an identity that is not in
\* the registry, and found=true with a rank >= 1 for one that is; never
\* found=true with rank 0.
C2_RankFound ==
    \A id \in Ids :
        ranks[id].status = "ok" =>
            /\ ranks[id].ok <=> id \in DOMAIN masternodes
            /\ ranks[id].ok => ranks[id].rank >= 1

\* C3: the ranks GetMasternodeRank returns for the members of a non-empty
\* registry at one block are pairwise distinct and are exactly 1..count.
C3_RanksArePermutation ==
    (/\ DOMAIN masternodes # {}
     /\ \A id \in DOMAIN masternodes : ranks[id].status = "ok")
    => /\ \A x, y \in DOMAIN masternodes : x # y => ranks[x].rank # ranks[y].rank
       /\ {ranks[id].rank : id \in DOMAIN masternodes} = 1..Cardinality(DOMAIN masternodes)

\* C4: the ranking is descending by Score: a member with a strictly greater
\* Score than another is given a strictly smaller rank.
C4_DescendingByScore ==
    \A x, y \in DOMAIN masternodes :
        (/\ ranks[x].status = "ok"
         /\ ranks[y].status = "ok"
         /\ CalculateScore(x, block) > CalculateScore(y, block))
        => ranks[x].rank < ranks[y].rank

\* C5: ranking is deterministic: on the same registry and block, a second
\* call of GetMasternodeRank for an identity returns what the first returned.
C5_RankDeterministic ==
    [][\A id \in Ids :
          (/\ ranks[id].status = "ok"
           /\ ranks'[id].status = "ok"
           /\ masternodes' = masternodes
           /\ block' = block)
          => ranks'[id] = ranks[id]]_vars

\* C6: on a non-empty registry GetNextMasternodeInQueueForPayment succeeds
\* and returns the record of maximum Score among the first max(1, N/10)
\* records sorted ascending by JoinHeight.
C6_PaymentWinner ==
    (payRet.status # "none" /\ DOMAIN masternodes # {})
    => /\ payRet.status = "ok"
       /\ payRet.err = "nil"
       /\ payRet.winner \in DecileWinners(masternodes, block)

\* C7: on an empty registry GetNextMasternodeInQueueForPayment fails with
\* an error and returns no winner: never a nil winner with a nil error,
\* never a crash.
C7_EmptyRegistryFails ==
    (payRet.status # "none" /\ DOMAIN masternodes = {})
    => /\ payRet.status = "ok"
       /\ payRet.winner = NilNode
       /\ payRet.err # "nil"

\* C8: payment-winner selection is deterministic: on a non-empty registry
\* every call returns a winner, a registry member, and a later call on the
\* same registry and block returns the same winner, whatever the order in
\* which Nodes() enumerates the registry.
C8_PaymentDeterministic ==
    [][(payRet'.status # "none" /\ DOMAIN masternodes' # {})
       => /\ payRet'.status = "ok"
          /\ payRet'.winner \in DOMAIN masternodes'
          /\ (payRet.status # "none" /\ masternodes' = masternodes /\ block' = block)
                => payRet'.winner = payRet.winner]_vars

\* C9: updateActiveMasternode sets the state as a function of the local
\* identity's record and the local endpoint only: NotCapable if the record
\* is absent or its IP or port differs, Started otherwise; a second run
\* with the same record yields the same state.
C9_ActiveStateFunction ==
    [][last'.updated =>
          /\ activeState' = TransitionFunction(masternodes')
          /\ (/\ last.updated
              /\ (Self \in DOMAIN masternodes <=> Self \in DOMAIN masternodes')
              /\ (Self \in DOMAIN masternodes => masternodes'[Self] = masternodes[Self]))
             => activeState' = activeState]_vars

\* C9 witness: a Join of the local identity registered at the local IP and
\* another port has been handled and left the state NotCapable.
C9_Witness ==
    /\ last.ev = "join"
    /\ last.updated
    /\ Self \in DOMAIN masternodes
    /\ masternodes[Self].IP = LocalIP
    /\ masternodes[Self].TCP # LocalPort
    /\ activeState = ACTIVE_MASTERNODE_NOT_CAPABLE

\* C10: whenever the event loop waits for the next event, the state is the
\* transition function of the current registry.
C10_StateFollowsRegistry ==
    pc = "select" => activeState = TransitionFunction(masternodes)

\* C10 witness: the loop waits after the Quit of the local identity, other
\* nodes still registered, and the state is NotCapable.
C10_Witness ==
    /\ pc = "select"
    /\ last.ev = "quit"
    /\ last.id = Self
    /\ Self \notin DOMAIN masternodes
    /\ DOMAIN masternodes # {}
    /\ activeState = ACTIVE_MASTERNODE_NOT_CAPABLE

\* C11: after a join-stream or quit-stream error the loop has unsubscribed
\* the stream and stopped: it handles no further Join or Quit event.
C11_StreamErrorStopsLoop ==
    [][(joinSub = "unsubscribed" \/ quitSub = "unsubscribed")
       => ~(last' # last /\ last'.ev \in {"join", "quit"})]_vars

\* C12: after Stop, the loop that waits for events eventually returns with
\* both streams unsubscribed.
C12_StopReturns ==
    (stopCalled /\ pc = "select")
        ~> (pc = "returned" /\ joinSub = "unsubscribed" /\ quitSub = "unsubscribed")

\* What C13 says of the last handled Join.
JoinFollowUp ==
    /\ last.id \in DOMAIN masternodes
    /\ IF last.id = Self
       THEN last.updated /\ ~last.addPeer
       ELSE last.addPeer /\ ~last.updated

QuitAfterJoin ==
    /\ last.ev = "join"
    /\ ~last.err
    /\ last'.ev = "quit"
    /\ last'.id = last.id

\* The cardinality of the registry before the Join that last records.
CardBeforeJoin ==
    Cardinality(DOMAIN masternodes) - (IF last.had THEN 0 ELSE 1)

\* C15 as stated: for every identity A, Join(A) then Quit(A) returns the
\* registry to the cardinality before the Join, and A is not found.
C15_JoinQuitRestores ==
    [][QuitAfterJoin =>
          /\ Cardinality(DOMAIN masternodes') = CardBeforeJoin
          /\ last.id \notin DOMAIN masternodes']_vars

\* C15 amended: A is not found afterwards; the cardinality is the one
\* before the Join if A was not registered before the Join, and one less
\* if it was.
C15_JoinQuitRestoresIfNew ==
    [][QuitAfterJoin =>
          /\ last.id \notin DOMAIN masternodes'
          /\ ~last.had => Cardinality(DOMAIN masternodes') = CardBeforeJoin
          /\ last.had => Cardinality(DOMAIN masternodes') = CardBeforeJoin - 1]_vars

\* C15 witness: the Quit of an identity that the step before had newly
\* joined has been handled, other nodes being registered.
C15_Witness ==
    /\ last.ev = "quit"
    /\ last.after = "joinNew"
    /\ last.id \notin DOMAIN masternodes
    /\ DOMAIN masternodes # {}

\* C19: a Join whose NodeJoin fails leaves the state unchanged, requests no
\* peer connection, and the loop goes on waiting for events.
C19_JoinFailureFrame ==
    [][(last'.ev = "join" /\ last'.err) =>
          /\ activeState' = activeState
          /\ ~last'.addPeer
          /\ ~last'.updated
          /\ pc' = "select"
          /\ joinSub' = "subscribed"
          /\ quitSub' = "subscribed"]_vars

\* C19 witness: a failed Join has been handled while the node is Started.
C19_Witness ==
    /\ last.ev = "join"
    /\ last.err
    /\ pc = "select"
    /\ activeState = ACTIVE_MASTERNODE_STARTED

\* C20: the state changes only at startup or while handling an event of
\* the local identity; an event of another identity leaves it unchanged.
C20_OtherIdentityFrame ==
    [][activeState' # activeState =>
          \/ last'.ev = "start"
          \/ (last'.ev \in {"join", "quit"} /\ last'.id = Self)]_vars

\* C20 witness: the Quit of a registered remote node has been handled and
\* the node is still Started.
C20_Witness ==
    /\ last.ev = "quit"
    /\ last.id # Self
    /\ last.had
    /\ activeState = ACTIVE_MASTERNODE_STARTED

\* C14: within one call of GetNextMasternodeInQueueForPayment the size used
\* for the decile (Len) and the records iterated (Nodes) come from the same
\* registry state.
C14_ConsistentSnapshot ==
    payCall.pc = "done" => payCall.seen = payCall.len

\* Section 4.3: the registered identities at or above the protocol floor.
Eligible == {i \in DOMAIN masternodes : protocolVersion[i] >= MinProtocol}

\* C16: a record below the protocol floor is given no rank, and the rank
\* of an eligible record is a position among the eligible records.
C16_ProtocolFloor ==
    \A id \in DOMAIN masternodes :
        ranks[id].status = "ok" =>
            IF id \in Eligible
            THEN ranks[id].rank \in 1..Cardinality(Eligible)
            ELSE ~ranks[id].ok \/ ranks[id].rank = 0

\* The ranked pairs of registered identities of equal Score, smaller
\* identity first.
TiePairs ==
    {p \in (DOMAIN masternodes) \X (DOMAIN masternodes) :
        /\ p[1] < p[2]
        /\ CalculateScore(p[1], block) = CalculateScore(p[2], block)
        /\ ranks[p[1]].status = "ok"
        /\ ranks[p[2]].status = "ok"}

\* C17: identities of equal Score are ranked by the Identity key alone:
\* all of them in ascending or all of them in descending order of Identity.
C17_TieBreakByIdentity ==
    block # NoBlock =>
        \/ \A p \in TiePairs : ranks[p[1]].rank < ranks[p[2]].rank
        \/ \A p \in TiePairs : ranks[p[1]].rank > ranks[p[2]].rank

\* C18: with no current block GetMasternodeRank returns (0, false) without
\* failing, and ProcessTxLockVotes returns false without forwarding.
C18_NoBlockRejects ==
    block = NoBlock =>
        /\ \A id \in Ids :
              ranks[id].status # "none" =>
                  ranks[id] = [status |-> "ok", rank |-> 0, ok |-> FALSE]
        /\ voteRet.status # "none" =>
              (voteRet.status = "ok" /\ ~voteRet.forwarded)

====
